---- MODULE Spec2Model ----
(***************************************************************************)
(* umbrella: a workspace provisioning tool for PhET sims.                  *)
(*                                                                         *)
(* Three programs are modelled:                                            *)
(*   - the snapshot ("zip") variant of scripts/manage.js                   *)
(*     (src/unnamed/part_000): add-sim, status, pull, push, ensure-entr;   *)
(*   - the install-tracking variant (src/scripts/manage.js): add-sim,      *)
(*     remove-sim, list-sims, ...;                                         *)
(*   - the dev-session launcher (the script embedded in src/README.md).    *)
(*                                                                         *)
(* The file system is modelled by the set of directories under repos/      *)
(* (dirs), the subset that holds a .git directory (gitDirs), the subset    *)
(* that holds node_modules (nodeModules) and the set of scratch            *)
(* directories .tmp-umbrella-* under the project root (tmpDirs).  The      *)
(* contents of a repository (its package.json, chipper's build.json) are   *)
(* those of the remote repository it was fetched from; they are chosen in  *)
(* Init and stay fixed.  External processes (curl, unzip, git, npm) are    *)
(* black boxes whose exit status is a nondeterministic input.              *)
(***************************************************************************)
EXTENDS Naturals, Integers, Sequences, FiniteSets, TLC

VARIABLES
  simsJson,       \* the manifest file sims.json
  buildJson,      \* chipper's build.json
  packageJson,    \* repository name -> its package.json
  variant,        \* which scripts/manage.js is installed: "zip" (part_000) or "manage"
  dirs,           \* directories that exist under repos/
  gitDirs,        \* directories under repos/ that hold .git
  nodeModules,    \* directories under repos/ that hold node_modules
  tmpDirs,        \* the .tmp-umbrella-* scratch directories that exist (by number)
  pc,             \* position of the driver process
  exitCode,       \* exit code of the last driver process (-1: none yet)
  stderr,         \* whether the current process has written to standard error
  stdout,         \* the warnings and the usage the current process has logged
  argv,           \* [cmd, arg] of the current process
  config,         \* addSim: the resolved manifest entry
  call,           \* the ensureZipRepo / ensureLiveRepo call in progress
  commonPhetLibs, \* addSim: the list read from chipper/build.json
  simPhetLibs,    \* addSim: the list read from the sim's package.json
  allDeps,        \* addSim: the Set allDeps, in insertion order
  idx,            \* addSim: position of the forEach over allDeps
  zipRepos,       \* addSim: the array zipRepos
  todo,           \* status/pull/push: repositories still to visit
  log,            \* external processes spawned by the current process
  attempts,       \* URLs tried by the current ensureZipRepo call
  rets,           \* arguments of the acquirer calls that returned, latest last
  ncmds,          \* number of driver processes started so far
  installedFile,  \* install-tracking variant: installed-sims.json
  listed,         \* install-tracking variant: the keys list-sims printed
  simq,           \* install-tracking variant: sims still to ensure
  libq,           \* install-tracking variant: the list a forEach iterates
  prev,           \* history: the previous process (argv, exit code, installed-set before it)
  before,         \* history: installed-set and directories when the process began,
                  \*   whether every earlier process was an add-sim or remove-sim
                  \*   that exited with 0 (clean), and whether one of them was an
                  \*   add-sim (adds)
  lpc,            \* dev-session launcher: "start", "running" or "exited"
  lexit,          \* dev-session launcher: its exit code (-1: none yet)
  lerr,           \* dev-session launcher: the error messages it printed
  child,          \* dev-session launcher: the two child processes
  pending,        \* dev-session launcher: events emitted and not yet handled
  stopScenario    \* history: the watcher exited on SIGTERM after the dev server was told to stop

fsVars == <<dirs, gitDirs, nodeModules, tmpDirs>>
worldVars == <<simsJson, buildJson, packageJson, variant>>
addSimVars == <<config, commonPhetLibs, simPhetLibs, allDeps, idx, zipRepos>>
manageVars == <<installedFile, listed, simq, libq, prev, before>>
devVars == <<lpc, lexit, lerr, child, pending, stopScenario>>
driverVars == <<pc, exitCode, stderr, stdout, argv, call, todo, log, attempts, rets, ncmds>>
vars == <<simsJson, buildJson, packageJson, variant, dirs, gitDirs, nodeModules, tmpDirs,
          pc, exitCode, stderr, stdout, argv, config, call, commonPhetLibs, simPhetLibs,
          allDeps, idx, zipRepos, todo, log, attempts, rets, ncmds,
          installedFile, listed, simq, libq, prev, before,
          lpc, lexit, lerr, child, pending, stopScenario>>

(***************************************************************************)
(* Bounds and input domains                                                *)
(***************************************************************************)
MaxCmds == 3

\* How many returned acquirer calls the history rets keeps.
MaxRets == 4

\* How many acquirer calls the harness SpecAcq makes.
MaxCalls == 4

\* How many processes of the install-tracking variant a behaviour runs.
MaxManageCmds == 4

Range(s) == {s[i] : i \in 1..Len(s)}

NoDup(s) == \A i, j \in 1..Len(s) : s[i] = s[j] => i = j

CHIPPER == "chipper"

PERENNIAL_ALIAS == "perennial-alias"

PERENNIAL_REPO == "perennial"

TOOLING_BRANCH == "packagelock-umbrella-1"

DEFAULT_OWNER == "phetsims"

SimNames == {"a", "a-lib", "b"}

Repos == {CHIPPER, PERENNIAL_ALIAS, PERENNIAL_REPO} \cup SimNames

\* Exit statuses of an external process: success and one failure.
Statuses == {0, 1}

\* A JSON file on disk: absent, not parseable, or parsed; libs is the string
\* array the readers look for ([] when the field is missing or no array).
Absent == [kind |-> "absent", libs |-> <<>>]

Malformed == [kind |-> "malformed", libs |-> <<>>]

Json(libs) == [kind |-> "ok", libs |-> libs]

\* sims.json: kind as above, sims the array of entries; liveRepo "" stands
\* for an entry without liveRepo.
ManifestFiles ==
  { [kind |-> "absent", sims |-> <<>>],
    [kind |-> "malformed", sims |-> <<>>],
    [kind |-> "ok", sims |-> << [sim |-> "a", liveRepo |-> "a-lib", deps |-> <<"b">>] >>],
    [kind |-> "ok", sims |-> << [sim |-> "b", liveRepo |-> "", deps |-> <<>>],
                                [sim |-> "", liveRepo |-> "a", deps |-> <<>>] >>] }

BuildJsonFiles == { Malformed, Json(<<>>), Json(<<"b", PERENNIAL_REPO>>) }

PackageJsonFiles(repo) ==
  CASE repo = "a" -> { Json(<<>>), Json(<<"b", "a-lib", "b">>) }
    [] repo = "a-lib" -> { Absent, Json(<<"b", "a", CHIPPER>>) }
    [] repo = PERENNIAL_REPO -> { Absent, Json(<<>>) }
    [] OTHER -> { Json(<<>>) }

AllPackageJsonFiles == UNION { PackageJsonFiles(r) : r \in Repos }

\* The sub-commands and arguments given on the command line ("" : none).
CommandNames == {"add-sim", "status", "pull", "push", "ensure-entr", ""}

SimArgs == {"a", "b", ""}

(***************************************************************************)
(* Helpers of part_000                                                     *)
(***************************************************************************)
NoCall ==
  [fn |-> "none", repoName |-> "", destName |-> "", branch |-> "", phase |-> "",
   cand |-> 0, tmpRoot |-> 0]

ZipCall(repoName, destName, branch) ==
  [fn |-> "zip", repoName |-> repoName, destName |-> destName, branch |-> branch,
   phase |-> "enter", cand |-> 0, tmpRoot |-> 0]

LiveCall(repoName) ==
  [fn |-> "live", repoName |-> repoName, destName |-> repoName, branch |-> "",
   phase |-> "enter", cand |-> 0, tmpRoot |-> 0]

CallArgs(c) == [fn |-> c.fn, repoName |-> c.repoName, destName |-> c.destName, branch |-> c.branch]

\* The remote repository a directory under repos/ was fetched from.
RepoOf(dir) == IF dir = PERENNIAL_ALIAS THEN PERENNIAL_REPO ELSE dir

Running == pc \notin {"idle", "exited"}

\* new Set( [ ...xs ] ) and Set.add: insertion order, first occurrence kept.
RECURSIVE SetAddAll(_, _)
SetAddAll(set, xs) ==
  IF xs = <<>> THEN set
  ELSE SetAddAll(IF Head(xs) \in Range(set) THEN set ELSE Append(set, Head(xs)), Tail(xs))

\* loadManifest: the Map built from sims.json, as a function on its keys.
RECURSIVE ManifestMap(_)
ManifestMap(sims) ==
  IF sims = <<>> THEN <<>>
  ELSE LET entry == sims[Len(sims)]
           rest == ManifestMap(SubSeq(sims, 1, Len(sims) - 1))
       IN IF entry.sim # ""
          THEN [k \in DOMAIN rest \cup {entry.sim} |->
                  IF k = entry.sim
                  THEN [sim |-> entry.sim,
                        liveRepo |-> IF entry.liveRepo # "" THEN entry.liveRepo ELSE entry.sim,
                        deps |-> entry.deps]
                  ELSE rest[k]]
          ELSE rest

loadManifest == IF simsJson.kind = "ok" THEN ManifestMap(simsJson.sims) ELSE <<>>

\* The warning loadManifest logs, if any.
loadManifest_log == IF simsJson.kind = "malformed" THEN {"sims.json unreadable"} ELSE {}

\* Mutant: the default entry depends on the sim itself.
resolveSimConfig_DepsSelf(manifest, simName) ==
  IF simName \in DOMAIN manifest THEN manifest[simName]
  ELSE [sim |-> simName, liveRepo |-> simName, deps |-> <<simName>>]

resolveSimConfig(manifest, simName) ==
  IF simName \in DOMAIN manifest THEN manifest[simName]
  ELSE [sim |-> simName, liveRepo |-> simName, deps |-> <<>>]

\* The message resolveSimConfig logs, if any.
resolveSimConfig_log(manifest, simName) ==
  IF simName \in DOMAIN manifest THEN {} ELSE {"not in sims.json"}

readCommonPhetLibs ==
  IF CHIPPER \notin dirs \/ buildJson.kind # "ok" THEN <<>> ELSE buildJson.libs

\* The warning readCommonPhetLibs logs, if any.
readCommonPhetLibs_log ==
  IF CHIPPER \notin dirs \/ buildJson.kind = "absent" THEN {"build.json not found"}
  ELSE IF buildJson.kind = "malformed" THEN {"build.json unreadable"}
  ELSE {}

readSimPhetLibs(repoName) ==
  IF repoName \notin dirs \/ packageJson[RepoOf(repoName)].kind # "ok" THEN <<>>
  ELSE packageJson[RepoOf(repoName)].libs

\* Mutant: the live repo is not excluded from the snapshots.
excludeFromZip_NoLiveRepo(simName, liveRepo) == {CHIPPER, PERENNIAL_ALIAS, PERENNIAL_REPO, simName}

excludeFromZip(simName, liveRepo) == {CHIPPER, PERENNIAL_ALIAS, PERENNIAL_REPO, simName, liveRepo}

findGitRepos == gitDirs

\* The candidate download URLs of ensureZipRepo, in order.
RECURSIVE CandidatesOf(_, _)
CandidatesOf(repoName, branches) ==
  IF branches = <<>> THEN <<>>
  ELSE << [tmpl |-> "archive", owner |-> DEFAULT_OWNER, repo |-> repoName, branch |-> Head(branches)],
          [tmpl |-> "zipball", owner |-> DEFAULT_OWNER, repo |-> repoName, branch |-> Head(branches)] >>
       \o CandidatesOf(repoName, Tail(branches))

\* Mutant: without a branch hint master is tried before main.
candidates_MasterFirst(repoName, branch) ==
  CandidatesOf(repoName, IF branch # "" THEN <<branch>> ELSE <<"master", "main">>)

candidates(repoName, branch) ==
  CandidatesOf(repoName, IF branch # "" THEN <<branch>> ELSE <<"main", "master">>)

\* process.exit( code ): the process ends on the spot; no finally block runs.
Exit(code) == pc' = "exited" /\ exitCode' = code

\* Mutant: exitWithError that writes nothing.
exitWithError_Silent == stderr' = stderr /\ Exit(1)

\* exitWithError( message )
exitWithError == stderr' = TRUE /\ Exit(1)

\* spawnSync: the command, where it works (a repository), its exit status.
Spawn(cmd, where, status) ==
  log' = Append(log, [cmd |-> cmd, where |-> where, status |-> status])

\* A call returns to addSim.
Return ==
  /\ call' = NoCall
  /\ rets' = Append(IF Len(rets) < MaxRets THEN rets ELSE Tail(rets), CallArgs(call))

(***************************************************************************)
(* ensureZipRepo( repoName, owner, destName, branch )                      *)
(***************************************************************************)
\* fs.mkdtempSync: a name no existing scratch directory has.
mkdtemp == CHOOSE n \in 1..(Cardinality(tmpDirs) + 1) : n \notin tmpDirs

\* Mutant: ensureZipRepo without its existence check.
ensureZipRepo_check_NoExistsCheck ==
  /\ Running /\ call.fn = "zip" /\ call.phase = "enter"
  /\ tmpDirs' = tmpDirs \cup {mkdtemp}
  /\ call' = [call EXCEPT !.phase = "curl", !.cand = 1, !.tmpRoot = mkdtemp]
  /\ attempts' = <<>>
  /\ UNCHANGED <<stdout, devVars, manageVars, worldVars, dirs, gitDirs, nodeModules, pc, exitCode, stderr, argv,
                 addSimVars, todo, log, rets, ncmds>>

ensureZipRepo_check ==
  /\ Running /\ call.fn = "zip" /\ call.phase = "enter"
  /\ IF call.destName \in dirs
     THEN /\ Return
          /\ UNCHANGED <<tmpDirs, attempts>>
     ELSE /\ tmpDirs' = tmpDirs \cup {mkdtemp}
          /\ call' = [call EXCEPT !.phase = "curl", !.cand = 1, !.tmpRoot = mkdtemp]
          /\ attempts' = <<>>
          /\ UNCHANGED rets
  /\ UNCHANGED <<stdout, devVars, manageVars, worldVars, dirs, gitDirs, nodeModules, pc, exitCode, stderr, argv,
                 addSimVars, todo, log, ncmds>>

ensureZipRepo_curl ==
  /\ Running /\ call.fn = "zip" /\ call.phase = "curl"
  /\ \E status \in Statuses :
       LET cands == candidates(call.repoName, call.branch) IN
       /\ Spawn("curl", call.repoName, status)
       /\ attempts' = Append(attempts, cands[call.cand])
       /\ IF status = 0
          THEN /\ call' = [call EXCEPT !.phase = "unzip"]
               /\ UNCHANGED <<pc, exitCode, stderr>>
          ELSE IF call.cand < Len(cands)
          THEN /\ call' = [call EXCEPT !.cand = call.cand + 1]
               /\ UNCHANGED <<pc, exitCode, stderr>>
          ELSE /\ exitWithError
               /\ UNCHANGED call
  /\ UNCHANGED <<stdout, devVars, manageVars, worldVars, fsVars, argv, addSimVars, todo, rets, ncmds>>

ensureZipRepo_unzip ==
  /\ Running /\ call.fn = "zip" /\ call.phase = "unzip"
  /\ \E status \in Statuses, hasDirectory \in BOOLEAN :
       /\ Spawn("unzip", call.repoName, status)
       /\ IF status # 0 \/ ~hasDirectory
          THEN /\ exitWithError
               /\ UNCHANGED <<call, rets, fsVars>>
          ELSE /\ dirs' = (dirs \ {call.destName}) \cup {call.destName}
               /\ gitDirs' = gitDirs \ {call.destName}
               /\ nodeModules' = nodeModules \ {call.destName}
               /\ tmpDirs' = tmpDirs \ {call.tmpRoot}
               /\ Return
               /\ UNCHANGED <<pc, exitCode, stderr>>
  /\ UNCHANGED <<stdout, devVars, manageVars, worldVars, argv, addSimVars, todo, attempts, ncmds>>

ensureZipRepo == ensureZipRepo_check \/ ensureZipRepo_curl \/ ensureZipRepo_unzip

(***************************************************************************)
(* ensureLiveRepo( repoName, owner )                                       *)
(***************************************************************************)
\* Mutant: ensureLiveRepo without its .git check.
ensureLiveRepo_check_NoGitCheck ==
  /\ Running /\ call.fn = "live" /\ call.phase = "enter"
  /\ dirs' = dirs \ {call.destName}
  /\ gitDirs' = gitDirs \ {call.destName}
  /\ nodeModules' = nodeModules \ {call.destName}
  /\ call' = [call EXCEPT !.phase = "clone"]
  /\ UNCHANGED <<stdout, devVars, manageVars, worldVars, tmpDirs, pc, exitCode, stderr, argv, addSimVars,
                 todo, log, attempts, rets, ncmds>>

ensureLiveRepo_check ==
  /\ Running /\ call.fn = "live" /\ call.phase = "enter"
  /\ IF call.destName \in gitDirs
     THEN /\ Return
          /\ UNCHANGED <<dirs, gitDirs, nodeModules>>
     ELSE /\ dirs' = dirs \ {call.destName}
          /\ gitDirs' = gitDirs \ {call.destName}
          /\ nodeModules' = nodeModules \ {call.destName}
          /\ call' = [call EXCEPT !.phase = "clone"]
          /\ UNCHANGED rets
  /\ UNCHANGED <<stdout, devVars, manageVars, worldVars, tmpDirs, pc, exitCode, stderr, argv, addSimVars,
                 todo, log, attempts, ncmds>>

ensureLiveRepo_clone ==
  /\ Running /\ call.fn = "live" /\ call.phase = "clone"
  /\ \E status \in Statuses :
       /\ Spawn("git clone", call.repoName, status)
       /\ IF status = 0
          THEN /\ dirs' = dirs \cup {call.destName}
               /\ gitDirs' = gitDirs \cup {call.destName}
               /\ Return
               /\ UNCHANGED <<pc, exitCode, stderr>>
          ELSE /\ exitWithError
               /\ UNCHANGED <<call, rets, dirs, gitDirs>>
  /\ UNCHANGED <<stdout, devVars, manageVars, worldVars, nodeModules, tmpDirs, argv, addSimVars, todo, attempts, ncmds>>

ensureLiveRepo == ensureLiveRepo_check \/ ensureLiveRepo_clone
(***************************************************************************)
(* npmInstallIfNeeded( name ): the outcome without the control transfer.   *)
(* needsInstall is the guard of the npm run; status is npm's exit status   *)
(* (creating node_modules on success).                                     *)
(***************************************************************************)
needsInstall(name) ==
  /\ name \in dirs
  /\ packageJson[RepoOf(name)].kind # "absent"
  /\ name \notin nodeModules

\* The part of an addSim step that runs npmInstallIfNeeded( name ) and, when
\* the process survives it, goes on with `next`.
npmInstallIfNeeded(name, next) ==
  IF needsInstall(name)
  THEN \E status \in Statuses :
         /\ Spawn("npm", name, status)
         /\ IF status = 0
            THEN /\ nodeModules' = nodeModules \cup {name}
                 /\ next
                 /\ UNCHANGED <<exitCode, stderr>>
            ELSE /\ exitWithError
                 /\ UNCHANGED <<nodeModules, call, commonPhetLibs, stdout>>
  ELSE /\ next
       /\ UNCHANGED <<nodeModules, log, exitCode, stderr>>

(***************************************************************************)
(* main() and the command handlers of part_000                             *)
(***************************************************************************)
ResetLocals ==
  /\ config' = [sim |-> "", liveRepo |-> "", deps |-> <<>>]
  /\ commonPhetLibs' = <<>>
  /\ simPhetLibs' = <<>>
  /\ allDeps' = <<>>
  /\ idx' = 0
  /\ zipRepos' = <<>>

\* main(): an unknown or missing sub-command prints the usage on standard
\* output and exits with 1.
main_usage ==
  /\ ~Running /\ ncmds < MaxCmds
  /\ \E cmd \in {""}, arg \in SimArgs :
       /\ argv' = [cmd |-> cmd, arg |-> arg]
  /\ ncmds' = ncmds + 1
  /\ Exit(1)
  /\ stderr' = FALSE
  /\ stdout' = {"usage"}
  /\ log' = <<>> /\ attempts' = <<>> /\ rets' = <<>> /\ call' = NoCall /\ todo' = {}
  /\ ResetLocals
  /\ UNCHANGED <<devVars, manageVars, worldVars, fsVars>>

\* main() dispatching add-sim, up to the first ensureZipRepo call.
addSim ==
  /\ ~Running /\ ncmds < MaxCmds
  /\ \E simName \in SimArgs :
       /\ argv' = [cmd |-> "add-sim", arg |-> simName]
       /\ IF simName = ""
          THEN /\ exitWithError
               /\ call' = NoCall
               /\ config' = [sim |-> "", liveRepo |-> "", deps |-> <<>>]
               /\ stdout' = {}
          ELSE /\ config' = resolveSimConfig(loadManifest, simName)
               /\ stdout' = loadManifest_log \cup resolveSimConfig_log(loadManifest, simName)
               /\ call' = ZipCall(CHIPPER, CHIPPER, TOOLING_BRANCH)
               /\ pc' = "npmChipper"
               /\ stderr' = FALSE
               /\ UNCHANGED exitCode
  /\ ncmds' = ncmds + 1
  /\ log' = <<>> /\ attempts' = <<>> /\ rets' = <<>> /\ todo' = {}
  /\ commonPhetLibs' = <<>> /\ simPhetLibs' = <<>> /\ allDeps' = <<>>
  /\ idx' = 0 /\ zipRepos' = <<>>
  /\ UNCHANGED <<devVars, manageVars, worldVars, fsVars>>

\* Step 1 continued: npm install in chipper, then fetch perennial.
addSim_npmChipper ==
  /\ pc = "npmChipper" /\ call.fn = "none"
  /\ npmInstallIfNeeded(CHIPPER,
       /\ call' = ZipCall(PERENNIAL_REPO, PERENNIAL_ALIAS, TOOLING_BRANCH)
       /\ pc' = "npmPerennial"
       /\ UNCHANGED commonPhetLibs)
  /\ UNCHANGED <<stdout, devVars, manageVars, worldVars, dirs, gitDirs, tmpDirs, argv, config, simPhetLibs, allDeps,
                 idx, zipRepos, todo, attempts, rets, ncmds>>

\* Step 1 end, steps 2 and 3: npm install in perennial-alias, read the
\* common phetLibs, fetch the sim (zip when its live repo differs).
addSim_npmPerennial ==
  /\ pc = "npmPerennial" /\ call.fn = "none"
  /\ npmInstallIfNeeded(PERENNIAL_ALIAS,
       /\ commonPhetLibs' = readCommonPhetLibs
       /\ stdout' = stdout \cup readCommonPhetLibs_log
       /\ call' = IF config.liveRepo # config.sim
                  THEN ZipCall(config.sim, config.sim, "")
                  ELSE LiveCall(config.sim)
       /\ pc' = "step4")
  /\ UNCHANGED <<devVars, manageVars, worldVars, dirs, gitDirs, tmpDirs, argv, config, simPhetLibs, allDeps,
                 idx, zipRepos, todo, attempts, rets, ncmds>>

\* Steps 4 to 6 up to the clone of the live repo.
addSim_step4 ==
  /\ pc = "step4" /\ call.fn = "none"
  /\ simPhetLibs' = readSimPhetLibs(config.sim)
  /\ allDeps' = SetAddAll(<<>>, commonPhetLibs \o readSimPhetLibs(config.sim))
  /\ IF config.liveRepo # config.sim
     THEN /\ call' = LiveCall(config.liveRepo)
          /\ pc' = "step6"
          /\ UNCHANGED idx
     ELSE /\ pc' = "step7"
          /\ idx' = 1
          /\ UNCHANGED call
  /\ UNCHANGED <<stdout, devVars, manageVars, worldVars, fsVars, exitCode, stderr, argv, config, commonPhetLibs,
                 zipRepos, todo, log, attempts, rets, ncmds>>

\* Step 6 after the clone: the live repo's phetLibs join allDeps.
addSim_step6 ==
  /\ pc = "step6" /\ call.fn = "none"
  /\ allDeps' = SetAddAll(allDeps, readSimPhetLibs(config.liveRepo))
  /\ pc' = "step7"
  /\ idx' = 1
  /\ UNCHANGED <<stdout, devVars, manageVars, worldVars, fsVars, exitCode, stderr, argv, config, call, commonPhetLibs,
                 simPhetLibs, zipRepos, todo, log, attempts, rets, ncmds>>

\* Step 7: one iteration of allDeps.forEach up to its ensureZipRepo call, or
\* the end of addSim (and so of the process, with exit code 0).
addSim_step7 ==
  /\ pc = "step7" /\ call.fn = "none"
  /\ IF idx > Len(allDeps)
     THEN /\ Exit(0)
          /\ UNCHANGED <<call, idx>>
     ELSE IF allDeps[idx] \in excludeFromZip(config.sim, config.liveRepo)
     THEN /\ idx' = idx + 1
          /\ UNCHANGED <<call, pc, exitCode>>
     ELSE /\ call' = ZipCall(allDeps[idx], allDeps[idx], "")
          /\ pc' = "step7push"
          /\ UNCHANGED <<idx, exitCode>>
  /\ UNCHANGED <<stdout, devVars, manageVars, worldVars, fsVars, stderr, argv, config, commonPhetLibs, simPhetLibs,
                 allDeps, zipRepos, todo, log, attempts, rets, ncmds>>

\* Step 7: zipRepos.push( repo ) after ensureZipRepo returned.
addSim_step7push ==
  /\ pc = "step7push" /\ call.fn = "none"
  /\ zipRepos' = Append(zipRepos, allDeps[idx])
  /\ idx' = idx + 1
  /\ pc' = "step7"
  /\ UNCHANGED <<stdout, devVars, manageVars, worldVars, fsVars, exitCode, stderr, argv, config, call, commonPhetLibs,
                 simPhetLibs, allDeps, todo, log, attempts, rets, ncmds>>

\* statusAll / pullAll / pushAll up to the forEach.
gitAll ==
  /\ ~Running /\ ncmds < MaxCmds
  /\ \E cmd \in {"status", "pull", "push"} :
       /\ argv' = [cmd |-> cmd, arg |-> ""]
  /\ ncmds' = ncmds + 1
  /\ stderr' = FALSE
  /\ todo' = findGitRepos
  /\ IF findGitRepos = {} THEN Exit(0) ELSE pc' = "gitloop" /\ UNCHANGED exitCode
  /\ log' = <<>> /\ attempts' = <<>> /\ rets' = <<>> /\ call' = NoCall
  /\ stdout' = {}
  /\ ResetLocals
  /\ UNCHANGED <<devVars, manageVars, worldVars, fsVars>>

\* Mutant: run that goes on after a non-zero status.
run_NoExit(cmd, where, status, next) ==
  /\ Spawn(cmd, where, status)
  /\ next

\* run( cmd, args, options, errorMessage ): a non-zero status ends the
\* process through exitWithError, with or without an errorMessage.
run(cmd, where, status, next) ==
  /\ Spawn(cmd, where, status)
  /\ IF status # 0 THEN exitWithError ELSE next

\* One iteration of gitRepos.forEach in statusAll / pullAll / pushAll.
gitAll_step ==
  /\ pc = "gitloop"
  /\ \E repo \in todo, status \in Statuses :
       /\ todo' = IF status = 0 THEN todo \ {repo} ELSE todo
       /\ run("git " \o argv.cmd, repo, status,
              /\ stderr' = stderr
              /\ IF todo = {repo} THEN Exit(0) ELSE UNCHANGED <<pc, exitCode>>)
  /\ UNCHANGED <<stdout, devVars, manageVars, worldVars, fsVars, argv, addSimVars, call, attempts, rets, ncmds>>

\* ensureEntr: whatever the probes and apt-get return, the handler returns.
ensureEntr ==
  /\ ~Running /\ ncmds < MaxCmds
  /\ argv' = [cmd |-> "ensure-entr", arg |-> ""]
  /\ ncmds' = ncmds + 1
  /\ stderr' = FALSE
  /\ Exit(0)
  /\ stdout' = {}
  /\ log' = <<>> /\ attempts' = <<>> /\ rets' = <<>> /\ call' = NoCall /\ todo' = {}
  /\ ResetLocals
  /\ UNCHANGED <<devVars, manageVars, worldVars, fsVars>>

(***************************************************************************)
(* The snapshot variant: any sequence of at most MaxCmds processes.        *)
(***************************************************************************)
InitFs ==
  /\ dirs = {} /\ gitDirs = {} /\ nodeModules = {} /\ tmpDirs = {}

InitProcess ==
  /\ pc = "idle" /\ exitCode = -1 /\ stderr = FALSE /\ stdout = {}
  /\ argv = [cmd |-> "", arg |-> ""]
  /\ config = [sim |-> "", liveRepo |-> "", deps |-> <<>>]
  /\ call = NoCall
  /\ commonPhetLibs = <<>> /\ simPhetLibs = <<>> /\ allDeps = <<>>
  /\ idx = 0 /\ zipRepos = <<>> /\ todo = {}
  /\ log = <<>> /\ attempts = <<>> /\ rets = <<>> /\ ncmds = 0
  /\ installedFile = [kind |-> "absent", list |-> <<>>]
  /\ listed = <<>> /\ simq = <<>> /\ libq = <<>>
  /\ prev = [argv |-> [cmd |-> "", arg |-> ""], exitCode |-> -1, installed |-> <<>>]
  /\ before = [installed |-> <<>>, dirs |-> {}, clean |-> TRUE, adds |-> FALSE]

\* The launcher is not part of the driver: it has not been started.
InitNoLauncher ==
  /\ lpc = "start" /\ lexit = -1 /\ lerr = {} /\ pending = {} /\ stopScenario = FALSE
  /\ child = [c \in {"dev", "watch"} |->
               [state |-> "none", code |-> -1, signal |-> "", told |-> FALSE, spawns |-> 0]]

InitWorld ==
  /\ simsJson \in ManifestFiles
  /\ buildJson \in BuildJsonFiles
  /\ packageJson \in {f \in [Repos -> AllPackageJsonFiles] :
                        \A r \in Repos : f[r] \in PackageJsonFiles(r)}

InitZip == InitWorld /\ variant = "zip" /\ InitFs /\ InitProcess /\ InitNoLauncher

NextZip ==
  \/ main_usage
  \/ addSim
  \/ addSim_npmChipper
  \/ addSim_npmPerennial
  \/ addSim_step4
  \/ addSim_step6
  \/ addSim_step7
  \/ addSim_step7push
  \/ ensureZipRepo_check
  \/ ensureZipRepo_curl
  \/ ensureZipRepo_unzip
  \/ ensureLiveRepo_check
  \/ ensureLiveRepo_clone
  \/ gitAll
  \/ gitAll_step
  \/ ensureEntr

SpecZip == InitZip /\ [][NextZip]_vars
(***************************************************************************)
(* Claims about the snapshot variant                                       *)
(***************************************************************************)
Snapshot(d) == d \in dirs /\ d \notin gitDirs

Live(d) == d \in gitDirs

AddSimDone == pc = "exited" /\ exitCode = 0 /\ argv.cmd = "add-sim"

\* The dependency lists as the files of the fetched repositories give them.
CommonDeps == IF buildJson.kind = "ok" THEN Range(buildJson.libs) ELSE {}

DepsOf(repo) == IF packageJson[repo].kind = "ok" THEN Range(packageJson[repo].libs) ELSE {}

\* C1 as claimed: every directory under repos/ is in one form, and no step of
\* an acquirer (no step of any add-sim sequence) deletes an existing
\* directory or changes its form, snapshot or live clone.
C1_NeverOverwrites ==
  /\ [](gitDirs \subseteq dirs)
  /\ [][\A d \in Repos :
          d \in dirs => (d \in dirs' /\ (d \in gitDirs <=> d \in gitDirs'))]_vars

\* C1 as amended: every directory is in one form; a live clone is never
\* deleted or replaced; ensureZipRepo never deletes or replaces a directory
\* (past its existence check its destination does not exist); a snapshot is
\* deleted only by ensureLiveRepo called on its name.
C1_LiveKept_SnapshotOnlyByEnsureLive ==
  /\ [](gitDirs \subseteq dirs)
  /\ []((Running /\ call.fn = "zip" /\ call.phase \in {"curl", "unzip"})
          => call.destName \notin dirs)
  /\ [][\A d \in Repos :
          /\ Live(d) => Live(d)'
          /\ (Snapshot(d) /\ ~Snapshot(d)')
               => (call.fn = "live" /\ call.phase = "enter" /\ call.destName = d)]_vars

\* C1 witness: ensureZipRepo has just returned for a destination that is a
\* live clone (it existed before the call and is still a live clone).
C1_Witness ==
  /\ rets # <<>>
  /\ rets[Len(rets)].fn = "zip"
  /\ rets[Len(rets)].destName \in gitDirs
  /\ call.fn = "none"

\* C2 as claimed: the snapshots acquired in step 7 of a completed add-sim are
\* exactly (commonDeps \cup simDeps) minus the tooling repos, the sim and its
\* live repo, each once.
C2_ExactUnion ==
  AddSimDone =>
    /\ NoDup(zipRepos)
    /\ Range(zipRepos) =
         (CommonDeps \cup DepsOf(config.sim))
           \ {CHIPPER, PERENNIAL_ALIAS, PERENNIAL_REPO, config.sim, config.liveRepo}

\* C2 as amended: when the live repo differs from the sim, the live repo's
\* own phetLibs belong to the union too; with that the membership is exact
\* at the end of a completed add-sim, and at every moment of step 7 the
\* snapshots acquired so far are in the set, each once.
C2_Target ==
  (CommonDeps \cup DepsOf(config.sim)
     \cup (IF config.liveRepo # config.sim THEN DepsOf(config.liveRepo) ELSE {}))
    \ {CHIPPER, PERENNIAL_ALIAS, PERENNIAL_REPO, config.sim, config.liveRepo}

C2_ExactUnionWithLiveDeps ==
  /\ argv.cmd = "add-sim" /\ argv.arg # "" =>
       /\ NoDup(zipRepos)
       /\ Range(zipRepos) \subseteq C2_Target
       /\ Range(zipRepos) \subseteq dirs
  /\ AddSimDone => Range(zipRepos) = C2_Target

\* C2 witness: a completed add-sim whose live repo differs from the sim, that
\* acquired a snapshot named only by the live repo, and whose lists named a
\* repository that is excluded.
C2_Witness ==
  /\ AddSimDone
  /\ config.liveRepo # config.sim
  /\ \E r \in Range(zipRepos) : r \notin CommonDeps \cup DepsOf(config.sim)
  /\ \E r \in Range(allDeps) : r \notin Range(zipRepos)

\* C3 as claimed: with the manifest entry {sim: "a", liveRepo: "a-lib",
\* deps: ["b"]} and an empty workspace, a completed add-sim("a") leaves the
\* tooling repos, "a" as a snapshot, "a-lib" as a live clone and "b" as a
\* snapshot.
C3_ManifestScenario ==
  ( /\ AddSimDone /\ ncmds = 1 /\ argv.arg = "a"
    /\ simsJson = [kind |-> "ok",
                   sims |-> << [sim |-> "a", liveRepo |-> "a-lib", deps |-> <<"b">>] >>] )
  => /\ {CHIPPER, PERENNIAL_ALIAS} \subseteq dirs
     /\ Snapshot("a")
     /\ Live("a-lib")
     /\ Snapshot("b")

\* C4 as claimed: a completed status has run git status in every enumerated
\* repository, and a failing git status does not end the process with an
\* error.
C4_StatusContinues ==
  (pc = "exited" /\ argv.cmd = "status")
  => /\ \A r \in findGitRepos : \E i \in 1..Len(log) : log[i].where = r
     /\ exitCode = 0

\* C5 as claimed: when every candidate download of a snapshot has failed the
\* process has exit code 1, the destination does not exist and the scratch
\* directory made for the attempt is gone.
C5_AllDownloadsFail ==
  ( /\ pc = "exited" /\ call.fn = "zip" /\ call.phase = "curl"
    /\ Len(attempts) = Len(candidates(call.repoName, call.branch)) )
  => /\ exitCode = 1
     /\ call.destName \notin dirs
     /\ call.tmpRoot \notin tmpDirs
(***************************************************************************)
(* The acquirer on its own: ensureZipRepo and ensureLiveRepo called, within *)
(* one process, with any of the arguments addSim calls them with, in any   *)
(* order.  A failing call ends the process; the next call starts a new one.*)
(***************************************************************************)
AcquirerCalls ==
  { ZipCall(CHIPPER, CHIPPER, TOOLING_BRANCH),
    ZipCall(PERENNIAL_REPO, PERENNIAL_ALIAS, TOOLING_BRANCH) }
  \cup { ZipCall(r, r, "") : r \in {"a", "b"} }
  \cup { LiveCall(r) : r \in {"a", "b"} }

acquirerCall ==
  /\ call.fn = "none" \/ ~Running
  /\ pc \in {"idle", "exited", "acq"}
  /\ ncmds < MaxCalls
  /\ \E c \in AcquirerCalls : call' = c
  /\ ncmds' = ncmds + 1
  /\ pc' = "acq"
  /\ IF Running
     THEN UNCHANGED <<log, rets, stderr>>
     ELSE log' = <<>> /\ rets' = <<>> /\ stderr' = FALSE
  /\ UNCHANGED <<stdout, devVars, manageVars, worldVars, fsVars, exitCode, argv, addSimVars, todo, attempts>>

InitAcq ==
  /\ simsJson = [kind |-> "absent", sims |-> <<>>]
  /\ buildJson = Json(<<>>)
  /\ packageJson = [r \in Repos |-> Json(<<>>)]
  /\ variant = "zip"
  /\ InitFs /\ InitProcess /\ InitNoLauncher

NextAcq ==
  \/ acquirerCall
  \/ ensureZipRepo_check
  \/ ensureZipRepo_curl
  \/ ensureZipRepo_unzip
  \/ ensureLiveRepo_check
  \/ ensureLiveRepo_clone

SpecAcq == InitAcq /\ [][NextAcq]_vars

\* Number of entries of the log equal to e.
Count(e) == Cardinality({i \in 1..Len(log) : log[i] = e})

\* C6: a call of ensureZipRepo or ensureLiveRepo that immediately follows a
\* call with the same arguments that returned, returns at its first step
\* without spawning a process and without changing the workspace; and within
\* one process no repository is downloaded or cloned successfully twice.
C6_Idempotent ==
  /\ [][(/\ Running /\ call.phase = "enter"
         /\ rets # <<>> /\ rets[Len(rets)] = CallArgs(call))
        => /\ call'.fn = "none"
           /\ rets' = Append(IF Len(rets) < MaxRets THEN rets ELSE Tail(rets), CallArgs(call))
           /\ pc' = pc
           /\ UNCHANGED <<dirs, gitDirs, nodeModules, tmpDirs, log>>]_vars
  /\ [](\A c \in AcquirerCalls :
          /\ Count([cmd |-> "curl", where |-> c.repoName, status |-> 0]) <= 1
          /\ Count([cmd |-> "git clone", where |-> c.repoName, status |-> 0]) <= 1)

\* C6 witness: in one process ensureZipRepo returned twice in a row for the
\* same arguments and then ensureLiveRepo did, the first call of each
\* having fetched the repository.
C6_Witness ==
  /\ Running /\ call.fn = "none" /\ Len(rets) = 4
  /\ rets[1] = rets[2] /\ rets[1].fn = "zip"
  /\ rets[3] = rets[4] /\ rets[3].fn = "live"
  /\ Count([cmd |-> "curl", where |-> rets[1].repoName, status |-> 0]) = 1
  /\ Count([cmd |-> "git clone", where |-> rets[3].repoName, status |-> 0]) = 1
(***************************************************************************)
(* The install-tracking variant, src/scripts/manage.js                     *)
(***************************************************************************)
ManageCommandNames == {"add-sim", "remove-sim", "list-sims", ""}

\* The sub-commands that are installAll() followed by a pass over the tracked
\* repositories (none for install-all itself).
InstallAllCommands == {"install-all", "pull-all", "push-all", "status-all", "clean-all"}

\* Array.prototype.sort() on the names used here (UTF-16 code unit order).
NameOrder == <<"a", "a-lib", "b", "chipper", "perennial", "perennial-alias">>

Rank(name) == CHOOSE i \in 1..Len(NameOrder) : NameOrder[i] = name

ensureInstalledFile(file) == IF file.kind = "absent" THEN [kind |-> "ok", list |-> <<>>] ELSE file

readInstalled(file) == IF file.kind = "ok" THEN file.list ELSE <<>>

\* Mutant: writeInstalled without the sort.
writeInstalled_NoSort(list) == [kind |-> "ok", list |-> SetAddAll(<<>>, list)]

writeInstalled(list) ==
  [kind |-> "ok", list |-> SortSeq(SetAddAll(<<>>, list), LAMBDA x, y : Rank(x) < Rank(y))]

\* installed.filter( ( name ) => name !== simName )
\* Mutant: the filter keeps the removed key and drops the others.
filterOut_Inverted(installed, simName) == SelectSeq(installed, LAMBDA name : name = simName)

filterOut(installed, simName) == SelectSeq(installed, LAMBDA name : name # simName)

\* The readers, over the directories ds that exist when they run.
readChipperCommonLibs(ds) ==
  IF CHIPPER \notin ds \/ buildJson.kind # "ok" THEN <<>> ELSE buildJson.libs

\* Mutant: readChipperCommonLibs swallows a parse error without a message.
readChipperCommonLibs_log_Silent(ds) == {}

\* The message readChipperCommonLibs logs, if any.
readChipperCommonLibs_log(ds) ==
  IF CHIPPER \in ds /\ buildJson.kind = "malformed" THEN {"build.json unreadable"} ELSE {}

readSimLibs(ds, simName) ==
  IF simName \notin ds \/ packageJson[RepoOf(simName)].kind # "ok" THEN <<>>
  ELSE packageJson[RepoOf(simName)].libs

\* Mutant: the installed sims themselves are not required.
computeRequiredRepos_LibsOnly(ds, installedSims) ==
  {CHIPPER, PERENNIAL_ALIAS} \cup Range(readChipperCommonLibs(ds))
    \cup UNION { Range(readSimLibs(ds, sim)) : sim \in Range(installedSims) }

computeRequiredRepos(ds, installedSims) ==
  {CHIPPER, PERENNIAL_ALIAS} \cup Range(readChipperCommonLibs(ds))
    \cup UNION { {sim} \cup Range(readSimLibs(ds, sim)) : sim \in Range(installedSims) }

\* Mutant: pruneRepos also removes chipper.
pruneRepos_DropChipper(ds, requiredSet) == ds \cap (requiredSet \ {CHIPPER})

\* pruneRepos: the directories left of ds.
pruneRepos(ds, requiredSet) == ds \cap requiredSet

\* History kept at the start of a process: every process so far, the one
\* that just ended included, was an add-sim or remove-sim that exited with 0.
CleanSoFar ==
  before.clean /\ (ncmds = 0 \/ (exitCode = 0 /\ argv.cmd \in {"add-sim", "remove-sim"}))

\* History kept at the start of a process: an add-sim has exited with 0.
AddsSoFar ==
  before.adds \/ (ncmds > 0 /\ exitCode = 0 /\ argv.cmd = "add-sim")

\* main() of manage.js up to the dispatch: what every known sub-command does
\* before its handler (ensureInstalledFile, mkdir repos) and the history.
manage_main(cmd, arg) ==
  /\ ~Running /\ ncmds < MaxManageCmds
  /\ argv' = [cmd |-> cmd, arg |-> arg]
  /\ ncmds' = ncmds + 1
  /\ log' = <<>>
  /\ prev' = [argv |-> argv, exitCode |-> exitCode, installed |-> before.installed]
  /\ before' = [installed |-> readInstalled(ensureInstalledFile(installedFile)), dirs |-> dirs,
                clean |-> CleanSoFar, adds |-> AddsSoFar]

\* main(): an unknown or missing sub-command prints the usage and exits with
\* 1 before installed-sims.json is touched.
manage_usage ==
  /\ ~Running /\ ncmds < MaxManageCmds
  /\ \E arg \in SimArgs : argv' = [cmd |-> "", arg |-> arg]
  /\ ncmds' = ncmds + 1
  /\ log' = <<>>
  /\ prev' = [argv |-> argv, exitCode |-> exitCode, installed |-> before.installed]
  /\ before' = [installed |-> readInstalled(installedFile), dirs |-> dirs,
                clean |-> CleanSoFar, adds |-> AddsSoFar]
  /\ Exit(1) /\ stderr' = FALSE
  /\ stdout' = {"usage"}
  /\ UNCHANGED <<devVars, worldVars, fsVars, addSimVars, call, todo, attempts, rets,
                 installedFile, listed, simq, libq>>

\* ensureRepoWithInstall( repoName, destName ) followed, when the process
\* survives it, by `ok` (which sets pc, simq, libq and stdout).
ensureRepoWithInstall(repoName, destName, ok) ==
  \E cloneStatus \in Statuses, npmStatus \in Statuses :
    LET needClone == destName \notin dirs
        hasPackageJson == packageJson[repoName].kind # "absent"
        cloned == IF needClone
                  THEN Append(log, [cmd |-> "git clone", where |-> repoName, status |-> cloneStatus])
                  ELSE log
    IN /\ needClone \/ cloneStatus = 0
       /\ IF needClone /\ cloneStatus # 0
          THEN /\ npmStatus = 0
               /\ log' = cloned
               /\ exitWithError
               /\ UNCHANGED <<dirs, gitDirs, nodeModules, simq, libq, stdout>>
          ELSE /\ dirs' = dirs \cup {destName}
               /\ gitDirs' = IF needClone THEN gitDirs \cup {destName} ELSE gitDirs
               /\ IF hasPackageJson
                  THEN /\ log' = Append(cloned, [cmd |-> "npm install", where |-> destName,
                                                 status |-> npmStatus])
                       /\ IF npmStatus # 0
                          THEN /\ exitWithError
                               /\ UNCHANGED <<nodeModules, simq, libq, stdout>>
                          ELSE /\ nodeModules' = nodeModules \cup {destName}
                               /\ ok
                               /\ UNCHANGED <<exitCode, stderr>>
                  ELSE /\ npmStatus = 0
                       /\ log' = cloned
                       /\ ok
                       /\ UNCHANGED <<nodeModules, exitCode, stderr>>

\* Mutant: addSim records the sim before acquiring anything.
manage_addSim_RecordFirst ==
  /\ \E simName \in SimArgs :
       /\ manage_main("add-sim", simName)
       /\ IF simName = ""
          THEN /\ exitWithError /\ simq' = <<>>
               /\ installedFile' = ensureInstalledFile(installedFile)
          ELSE /\ pc' = "m_chipper"
               /\ simq' = <<simName>>
               /\ stderr' = FALSE
               /\ installedFile' = writeInstalled(Append(readInstalled(installedFile), simName))
               /\ UNCHANGED exitCode
  /\ libq' = <<>>
  /\ stdout' = {}
  /\ UNCHANGED <<devVars, worldVars, fsVars, addSimVars, call, todo, attempts, rets, listed>>

manage_addSim ==
  /\ \E simName \in SimArgs :
       /\ manage_main("add-sim", simName)
       /\ IF simName = ""
          THEN exitWithError /\ simq' = <<>>
          ELSE /\ pc' = "m_chipper"
               /\ simq' = <<simName>>
               /\ stderr' = FALSE
               /\ UNCHANGED exitCode
  /\ installedFile' = ensureInstalledFile(installedFile)
  /\ libq' = <<>>
  /\ stdout' = {}
  /\ UNCHANGED <<devVars, worldVars, fsVars, addSimVars, call, todo, attempts, rets, listed>>

\* ensureBaseRepos
manage_chipper ==
  /\ pc = "m_chipper"
  /\ ensureRepoWithInstall(CHIPPER, CHIPPER, pc' = "m_perennial" /\ UNCHANGED <<simq, libq, stdout>>)
  /\ UNCHANGED <<devVars, worldVars, tmpDirs, argv, addSimVars, call, todo, attempts, rets, ncmds,
                 installedFile, listed, prev, before>>

\* ensureBaseRepos, then ensureCommonLibs reads the common libs
manage_perennial ==
  /\ pc = "m_perennial"
  /\ ensureRepoWithInstall(PERENNIAL_REPO, PERENNIAL_ALIAS,
       /\ pc' = "m_common"
       /\ libq' = readChipperCommonLibs(dirs')
       /\ stdout' = stdout \cup readChipperCommonLibs_log(dirs')
       /\ UNCHANGED simq)
  /\ UNCHANGED <<devVars, worldVars, tmpDirs, argv, addSimVars, call, todo, attempts, rets, ncmds,
                 installedFile, listed, prev, before>>

\* ensureCommonLibs: one iteration of common.forEach
manage_commonLib ==
  /\ pc = "m_common" /\ libq # <<>>
  /\ ensureRepoWithInstall(Head(libq), Head(libq),
       /\ libq' = Tail(libq)
       /\ UNCHANGED <<pc, simq, stdout>>)
  /\ UNCHANGED <<devVars, worldVars, tmpDirs, argv, addSimVars, call, todo, attempts, rets, ncmds,
                 installedFile, listed, prev, before>>

\* ensureSimAndLibs( simName ): the sim, then its libs are read
manage_sim ==
  /\ pc \in {"m_common", "m_libs"} /\ libq = <<>> /\ simq # <<>>
  /\ ensureRepoWithInstall(Head(simq), Head(simq),
       /\ libq' = readSimLibs(dirs', Head(simq))
       /\ simq' = Tail(simq)
       /\ pc' = "m_libs"
       /\ UNCHANGED stdout)
  /\ UNCHANGED <<devVars, worldVars, tmpDirs, argv, addSimVars, call, todo, attempts, rets, ncmds,
                 installedFile, listed, prev, before>>

\* ensureSimAndLibs: one iteration of libs.forEach
manage_simLib ==
  /\ pc = "m_libs" /\ libq # <<>>
  /\ ensureRepoWithInstall(Head(libq), Head(libq),
       /\ libq' = Tail(libq)
       /\ UNCHANGED <<pc, simq, stdout>>)
  /\ UNCHANGED <<devVars, worldVars, tmpDirs, argv, addSimVars, call, todo, attempts, rets, ncmds,
                 installedFile, listed, prev, before>>

\* addSim: the sim is recorded as installed
manage_addSim_finish ==
  /\ pc = "m_libs" /\ libq = <<>> /\ simq = <<>> /\ argv.cmd = "add-sim"
  /\ LET installed == readInstalled(installedFile) IN
       installedFile' = IF argv.arg \notin Range(installed)
                        THEN writeInstalled(Append(installed, argv.arg))
                        ELSE installedFile
  /\ Exit(0)
  /\ UNCHANGED <<stdout, devVars, worldVars, fsVars, stderr, argv, addSimVars, call, todo, log, attempts,
                 rets, ncmds, listed, simq, libq, prev, before>>

removeSim ==
  /\ \E simName \in SimArgs :
       /\ manage_main("remove-sim", simName)
       /\ IF simName = ""
          THEN /\ exitWithError
               /\ installedFile' = ensureInstalledFile(installedFile)
               /\ stdout' = {}
               /\ UNCHANGED <<dirs, gitDirs, nodeModules>>
          ELSE LET installed == readInstalled(ensureInstalledFile(installedFile))
                   next == filterOut(installed, simName)
                   requiredRepos == computeRequiredRepos(dirs, next)
               IN /\ installedFile' = writeInstalled(next)
                  /\ dirs' = pruneRepos(dirs, requiredRepos)
                  /\ gitDirs' = pruneRepos(gitDirs, requiredRepos)
                  /\ nodeModules' = pruneRepos(nodeModules, requiredRepos)
                  /\ stderr' = FALSE
                  /\ stdout' = readChipperCommonLibs_log(dirs)
                  /\ Exit(0)
  /\ UNCHANGED <<devVars, worldVars, tmpDirs, addSimVars, call, todo, attempts, rets, listed,
                 simq, libq>>

listSims ==
  /\ manage_main("list-sims", "")
  /\ installedFile' = ensureInstalledFile(installedFile)
  /\ listed' = readInstalled(ensureInstalledFile(installedFile))
  /\ stderr' = FALSE
  /\ stdout' = {}
  /\ Exit(0)
  /\ UNCHANGED <<devVars, worldVars, fsVars, addSimVars, call, todo, attempts, rets, simq, libq>>

InitManage ==
  /\ simsJson = [kind |-> "absent", sims |-> <<>>]
  /\ buildJson \in BuildJsonFiles
  /\ packageJson \in {f \in [Repos -> AllPackageJsonFiles] :
                        \A r \in Repos : f[r] \in PackageJsonFiles(r)}
  /\ variant = "manage"
  /\ InitFs /\ InitProcess /\ InitNoLauncher

NextManage ==
  \/ manage_usage
  \/ manage_addSim
  \/ manage_chipper
  \/ manage_perennial
  \/ manage_commonLib
  \/ manage_sim
  \/ manage_simLib
  \/ manage_addSim_finish
  \/ removeSim
  \/ listSims

SpecManage == InitManage /\ [][NextManage]_vars
(***************************************************************************)
(* install-all, pull-all, push-all, status-all, clean-all and start        *)
(***************************************************************************)
\* installedSims.forEach( sim => { required.add( sim ); readSimLibs( sim )... } ),
\* as the list of the names in the order they are added.
RECURSIVE simsAndLibs(_, _)
simsAndLibs(ds, installedSims) ==
  IF installedSims = <<>> THEN <<>>
  ELSE <<Head(installedSims)>> \o readSimLibs(ds, Head(installedSims))
         \o simsAndLibs(ds, Tail(installedSims))

\* forEachTrackedRepo: the required Set in insertion order, without the names
\* that have no directory.
trackedRepos(ds, installedSims) ==
  SelectSeq(SetAddAll(<<>>, <<CHIPPER, PERENNIAL_ALIAS>> \o readChipperCommonLibs(ds)
                              \o simsAndLibs(ds, installedSims)),
            LAMBDA name : name \in ds)

\* Mutant: the last installed sim is the default.
chosenSim_Last(simName, installed) ==
  IF simName # "" THEN simName ELSE IF installed # <<>> THEN installed[Len(installed)] ELSE ""

\* const chosen = simName || installed[ 0 ]   ("" : undefined)
chosenSim(simName, installed) ==
  IF simName # "" THEN simName ELSE IF installed # <<>> THEN installed[1] ELSE ""

\* main() dispatching install-all, pull-all, push-all, status-all or
\* clean-all: each begins with installAll().
installAll ==
  /\ \E cmd \in InstallAllCommands : manage_main(cmd, "")
  /\ installedFile' = ensureInstalledFile(installedFile)
  /\ simq' = readInstalled(ensureInstalledFile(installedFile))
  /\ libq' = <<>>
  /\ pc' = "m_chipper"
  /\ stderr' = FALSE
  /\ stdout' = {}
  /\ UNCHANGED <<devVars, worldVars, fsVars, exitCode, addSimVars, call, todo, attempts, rets, listed>>

\* main() dispatching start, up to its installAll().
start ==
  /\ \E simName \in SimArgs :
       /\ manage_main("start", simName)
       /\ LET installed == readInstalled(ensureInstalledFile(installedFile)) IN
          IF chosenSim(simName, installed) = ""
          THEN /\ exitWithError
               /\ simq' = <<>>
          ELSE /\ pc' = "m_chipper"
               /\ simq' = installed
               /\ stderr' = FALSE
               /\ UNCHANGED exitCode
  /\ installedFile' = ensureInstalledFile(installedFile)
  /\ libq' = <<>>
  /\ stdout' = {}
  /\ UNCHANGED <<devVars, worldVars, fsVars, addSimVars, call, todo, attempts, rets, listed>>

\* installAll() has returned.
installAllReturned ==
  /\ pc \in {"m_common", "m_libs"} /\ libq = <<>> /\ simq = <<>>

\* install-all: the end of the command.
installAll_finish ==
  /\ installAllReturned /\ argv.cmd = "install-all"
  /\ Exit(0)
  /\ UNCHANGED <<stdout, devVars, worldVars, fsVars, stderr, argv, addSimVars, call, todo, log,
                 attempts, rets, ncmds, manageVars>>

\* start after installAll(): the directory check and npm start.
start_run ==
  /\ installAllReturned /\ argv.cmd = "start"
  /\ LET chosen == chosenSim(argv.arg, before.installed) IN
     IF chosen \notin dirs
     THEN /\ exitWithError
          /\ UNCHANGED log
     ELSE \E status \in Statuses :
            run("npm start", chosen, status, Exit(0) /\ UNCHANGED stderr)
  /\ UNCHANGED <<stdout, devVars, worldVars, fsVars, argv, addSimVars, call, todo, attempts, rets,
                 ncmds, manageVars>>

\* pull-all, push-all, status-all, clean-all after installAll():
\* forEachTrackedRepo computes the repositories to visit.
forEachTrackedRepo ==
  /\ installAllReturned /\ argv.cmd \in InstallAllCommands \ {"install-all"}
  /\ LET repos == trackedRepos(dirs, readInstalled(installedFile)) IN
       /\ libq' = repos
       /\ IF repos = <<>> THEN Exit(0) ELSE pc' = "m_git" /\ UNCHANGED exitCode
  /\ stdout' = stdout \cup readChipperCommonLibs_log(dirs)
  /\ UNCHANGED <<devVars, worldVars, fsVars, stderr, argv, addSimVars, call, todo, log, attempts,
                 rets, ncmds, installedFile, listed, simq, prev, before>>

\* One iteration of required.forEach in forEachTrackedRepo: the callback of
\* pullAll, pushAll, statusAll or cleanAll (two runs) on one repository.
forEachTrackedRepo_step ==
  /\ pc = "m_git" /\ libq # <<>>
  /\ \E s1 \in Statuses, s2 \in Statuses :
       LET name == Head(libq)
           gitCmd == CASE argv.cmd = "pull-all" -> "git pull"
                       [] argv.cmd = "push-all" -> "git push"
                       [] argv.cmd = "status-all" -> "git status"
                       [] OTHER -> "git reset"
           first == Append(log, [cmd |-> gitCmd, where |-> name, status |-> s1])
           twoRuns == argv.cmd = "clean-all" /\ s1 = 0
       IN /\ twoRuns \/ s2 = 0
          /\ log' = IF twoRuns
                    THEN Append(first, [cmd |-> "git clean", where |-> name, status |-> s2])
                    ELSE first
          /\ IF s1 # 0 \/ s2 # 0
             THEN /\ exitWithError
                  /\ UNCHANGED libq
             ELSE /\ libq' = Tail(libq)
                  /\ UNCHANGED stderr
                  /\ IF Tail(libq) = <<>> THEN Exit(0) ELSE UNCHANGED <<pc, exitCode>>
  /\ UNCHANGED <<stdout, devVars, worldVars, fsVars, argv, addSimVars, call, todo, attempts, rets,
                 ncmds, installedFile, listed, simq, prev, before>>

(***************************************************************************)
(* Either variant of scripts/manage.js with all its sub-commands: the      *)
(* workspace is driven by the one or by the other.                         *)
(***************************************************************************)
InitBoth ==
  /\ variant \in {"zip", "manage"}
  /\ simsJson \in { [kind |-> "absent", sims |-> <<>>],
                    [kind |-> "ok",
                     sims |-> << [sim |-> "a", liveRepo |-> "a-lib", deps |-> <<"b">>] >>] }
  /\ variant = "manage" => simsJson.kind = "absent"
  /\ buildJson \in {Absent, Malformed, Json(<<"b">>)}
  /\ packageJson = [r \in Repos |->
                      CASE r = "a" -> Json(<<"b", "a-lib", "b">>)
                        [] r = "a-lib" -> Absent
                        [] OTHER -> Json(<<>>)]
  /\ InitFs /\ InitProcess /\ InitNoLauncher

NextBoth ==
  \/ variant = "zip" /\ main_usage
  \/ variant = "zip" /\ addSim
  \/ addSim_npmChipper
  \/ addSim_npmPerennial
  \/ addSim_step4
  \/ addSim_step6
  \/ addSim_step7
  \/ addSim_step7push
  \/ ensureZipRepo_check
  \/ ensureZipRepo_curl
  \/ ensureZipRepo_unzip
  \/ ensureLiveRepo_check
  \/ ensureLiveRepo_clone
  \/ variant = "zip" /\ gitAll
  \/ gitAll_step
  \/ variant = "zip" /\ ensureEntr
  \/ variant = "manage" /\ manage_usage
  \/ variant = "manage" /\ manage_addSim
  \/ manage_chipper
  \/ manage_perennial
  \/ manage_commonLib
  \/ manage_sim
  \/ manage_simLib
  \/ manage_addSim_finish
  \/ variant = "manage" /\ removeSim
  \/ variant = "manage" /\ listSims
  \/ variant = "manage" /\ installAll
  \/ variant = "manage" /\ start
  \/ installAll_finish
  \/ start_run
  \/ forEachTrackedRepo
  \/ forEachTrackedRepo_step

SpecBoth == InitBoth /\ [][NextBoth]_vars
(***************************************************************************)
(* Claims about the install-tracking variant                               *)
(***************************************************************************)
RemoveDone == pc = "exited" /\ exitCode = 0 /\ argv.cmd = "remove-sim"

\* C7: after a completed remove-sim(key) the persisted installed-set does not
\* hold key and holds every other key it held before; a list-sims run right
\* after it does not list key and lists every other key installed before.
C7_RemovedKeyNotListed ==
  /\ RemoveDone =>
       /\ argv.arg \notin Range(readInstalled(installedFile))
       /\ Range(before.installed) \ {argv.arg} \subseteq Range(readInstalled(installedFile))
  /\ ( /\ pc = "exited" /\ argv.cmd = "list-sims"
       /\ prev.argv.cmd = "remove-sim" /\ prev.exitCode = 0 )
     => /\ prev.argv.arg \notin Range(listed)
        /\ Range(prev.installed) \ {prev.argv.arg} \subseteq Range(listed)

\* C7 witness: list-sims has run right after a remove-sim of a key that was
\* installed together with another key, which it lists.
C7_Witness ==
  /\ pc = "exited" /\ argv.cmd = "list-sims"
  /\ prev.argv.cmd = "remove-sim" /\ prev.exitCode = 0
  /\ prev.argv.arg \in Range(prev.installed)
  /\ Len(prev.installed) = 2
  /\ Len(listed) = 1

\* The required set of C8, from the remaining installed sims and the files
\* of the repositories present when remove-sim began.
C8_Required ==
  LET remaining == Range(before.installed) \ {argv.arg} IN
  {CHIPPER, PERENNIAL_ALIAS}
    \cup (IF CHIPPER \in before.dirs THEN CommonDeps ELSE {})
    \cup remaining
    \cup UNION { IF sim \in before.dirs THEN DepsOf(sim) ELSE {} : sim \in remaining }

\* C8: a completed remove-sim leaves exactly the directories it found that
\* are in the required set recomputed from the remaining installed sims: it
\* deletes every other directory and none of the required ones.
C8_PruneExact ==
  RemoveDone =>
    /\ dirs = before.dirs \cap C8_Required
    /\ gitDirs \subseteq dirs

\* C8 witness: a completed remove-sim of an installed sim that deleted a
\* directory and kept one that the removed sim depends on.
C8_Witness ==
  /\ RemoveDone
  /\ argv.arg \in Range(before.installed)
  /\ dirs # before.dirs
  /\ DepsOf(argv.arg) \cap dirs # {}
(***************************************************************************)
(* The dev-session launcher (the script in src/README.md, lines 12-74)     *)
(*                                                                         *)
(* child[c].code is the exit code (-1 for null, when a signal ended the    *)
(* child), child[c].signal the ending signal ("" for null), child[c].told  *)
(* whether a SIGTERM was sent to the child while it ran.  The children     *)
(* and the senders of signals are the environment: a child may exit at any *)
(* time with any code, or on SIGKILL, or on SIGTERM once it was sent one.  *)
(* Exit events and received signals wait in pending until the launcher's   *)
(* event loop handles them, in any order.                                  *)
(***************************************************************************)
Children == {"dev", "watch"}

ExitCodes == {0, 1, 2}

Signals == {"SIGTERM", "SIGKILL"}

LauncherSignals == {"SIGINT", "SIGTERM"}

\* Mutant: shutdown that does not signal the watcher.
shutdown_DevOnly(code) ==
  /\ child' = [c \in Children |->
                 IF c = "dev" /\ child[c].state = "running"
                 THEN [child[c] EXCEPT !.told = TRUE] ELSE child[c]]
  /\ lpc' = "exited"
  /\ lexit' = code
  /\ pending' = {}

\* shutdown( code ): SIGTERM to both children (it reaches those that still
\* run), then process.exit( code ).
shutdown(code) ==
  /\ child' = [c \in Children |->
                 IF child[c].state = "running" THEN [child[c] EXCEPT !.told = TRUE] ELSE child[c]]
  /\ lpc' = "exited"
  /\ lexit' = code
  /\ pending' = {}

\* ensureExists for both tooling directories, then the two spawns.
launcher_start ==
  /\ lpc = "start"
  /\ IF CHIPPER \notin dirs \/ PERENNIAL_ALIAS \notin dirs
     THEN /\ lerr' = lerr \cup {"missing"}
          /\ lpc' = "exited"
          /\ lexit' = 1
          /\ UNCHANGED child
     ELSE /\ child' = [c \in Children |->
                         [child[c] EXCEPT !.state = "running", !.spawns = child[c].spawns + 1]]
          /\ lpc' = "running"
          /\ UNCHANGED <<lerr, lexit>>
  /\ UNCHANGED <<worldVars, fsVars, driverVars, addSimVars, manageVars, pending, stopScenario>>

\* Environment: a running child ends, with an exit code or on a signal.
childExits ==
  /\ \E c \in Children, code \in ExitCodes \cup {-1}, signal \in Signals \cup {""} :
       /\ child[c].state = "running"
       /\ (code = -1) <=> (signal # "")
       /\ signal = "SIGTERM" => child[c].told
       /\ child' = [child EXCEPT ![c] = [@ EXCEPT !.state = "exited", !.code = code,
                                                  !.signal = signal]]
       /\ pending' = IF lpc = "running" THEN pending \cup {c} ELSE pending
       /\ stopScenario' = (stopScenario \/ (c = "watch" /\ signal = "SIGTERM" /\ child["dev"].told))
  /\ UNCHANGED <<worldVars, fsVars, driverVars, addSimVars, manageVars, lpc, lexit, lerr>>

\* Environment: someone other than the launcher sends SIGTERM to a child.
childToldToStop ==
  /\ \E c \in Children :
       /\ child[c].state = "running" /\ ~child[c].told
       /\ child' = [child EXCEPT ![c] = [@ EXCEPT !.told = TRUE]]
  /\ UNCHANGED <<worldVars, fsVars, driverVars, addSimVars, manageVars, lpc, lexit, lerr,
                 pending, stopScenario>>

\* Environment: the launcher receives SIGINT or SIGTERM.
launcherSignalled ==
  /\ lpc = "running"
  /\ \E sig \in LauncherSignals : sig \notin pending /\ pending' = pending \cup {sig}
  /\ UNCHANGED <<worldVars, fsVars, driverVars, addSimVars, manageVars, lpc, lexit, lerr,
                 child, stopScenario>>

\* devServer.on( 'exit', ( code ) => ... )
devServer_onExit ==
  /\ lpc = "running" /\ "dev" \in pending
  /\ IF child["dev"].code # 0
     THEN /\ lerr' = lerr \cup {"dev"}
          /\ shutdown(IF child["dev"].code = -1 THEN 1 ELSE child["dev"].code)
     ELSE /\ pending' = pending \ {"dev"}
          /\ UNCHANGED <<lerr, lpc, lexit, child>>
  /\ UNCHANGED <<worldVars, fsVars, driverVars, addSimVars, manageVars, stopScenario>>

\* Mutant: the watcher handler exits with 1 whatever the watcher's code was.
watch_onExit_AlwaysOne ==
  /\ lpc = "running" /\ "watch" \in pending
  /\ IF child["watch"].signal = "SIGTERM"
     THEN /\ shutdown(0)
          /\ UNCHANGED lerr
     ELSE IF child["watch"].code # 0
     THEN /\ lerr' = lerr \cup {"watch"}
          /\ shutdown(1)
     ELSE /\ pending' = pending \ {"watch"}
          /\ UNCHANGED <<lerr, lpc, lexit, child>>
  /\ UNCHANGED <<worldVars, fsVars, driverVars, addSimVars, manageVars, stopScenario>>

\* watch.on( 'exit', ( code, signal ) => ... )
watch_onExit ==
  /\ lpc = "running" /\ "watch" \in pending
  /\ IF child["watch"].signal = "SIGTERM"
     THEN /\ shutdown(IF child["watch"].code \in {-1, 0} THEN 0 ELSE child["watch"].code)
          /\ UNCHANGED lerr
     ELSE IF child["watch"].code # 0
     THEN /\ lerr' = lerr \cup {"watch"}
          /\ shutdown(IF child["watch"].code = -1 THEN 1 ELSE child["watch"].code)
     ELSE /\ pending' = pending \ {"watch"}
          /\ UNCHANGED <<lerr, lpc, lexit, child>>
  /\ UNCHANGED <<worldVars, fsVars, driverVars, addSimVars, manageVars, stopScenario>>

\* process.on( 'SIGINT' | 'SIGTERM', () => shutdown( 0 ) )
process_onSignal ==
  /\ lpc = "running"
  /\ \E sig \in LauncherSignals : sig \in pending
  /\ shutdown(0)
  /\ UNCHANGED <<worldVars, fsVars, driverVars, addSimVars, manageVars, lerr, stopScenario>>

\* Both children are gone and no event waits: nothing keeps the event loop
\* alive and the launcher ends with exit code 0.
launcher_idleExit ==
  /\ lpc = "running" /\ pending = {}
  /\ \A c \in Children : child[c].state = "exited"
  /\ lpc' = "exited"
  /\ lexit' = 0
  /\ UNCHANGED <<worldVars, fsVars, driverVars, addSimVars, manageVars, lerr, child,
                 pending, stopScenario>>

InitDev ==
  /\ simsJson = [kind |-> "absent", sims |-> <<>>]
  /\ buildJson = Json(<<>>)
  /\ packageJson = [r \in Repos |-> Json(<<>>)]
  /\ dirs \in {{}, {CHIPPER}, {CHIPPER, PERENNIAL_ALIAS}}
  /\ gitDirs = {} /\ nodeModules = {} /\ tmpDirs = {}
  /\ variant = "zip"
  /\ InitProcess /\ InitNoLauncher

NextDev ==
  \/ launcher_start
  \/ childExits
  \/ childToldToStop
  \/ launcherSignalled
  \/ devServer_onExit
  \/ watch_onExit
  \/ process_onSignal
  \/ launcher_idleExit

SpecDev == InitDev /\ [][NextDev]_vars

\* The launcher's own steps are taken when they can be (a process that runs
\* and an event loop that dispatches what waits); the children and the
\* senders of signals are under no obligation.
SpecDevFair ==
  /\ SpecDev
  /\ WF_vars(launcher_start)
  /\ WF_vars(devServer_onExit)
  /\ WF_vars(watch_onExit)
  /\ WF_vars(process_onSignal)
  /\ WF_vars(launcher_idleExit)
(***************************************************************************)
(* Claims about the dev-session launcher                                   *)
(***************************************************************************)
\* A child, once spawned, is spawned only once and once exited stays exited.
NoRestart ==
  \A c \in Children : child[c].spawns' <= 1 /\ (child[c].state = "exited" => child[c].state' = "exited")

\* The launcher has exited and every child other than c has exited or been
\* sent SIGTERM.
SessionEnded(c) ==
  lpc = "exited" /\ \A d \in Children \ {c} : child[d].state = "exited" \/ child[d].told

\* C9 (as stated): once the dev server or the watcher has exited, with any
\* exit code or signal, the launcher eventually sends a termination signal to
\* the other child and exits, and it never restarts a child.
C9_AnyExitFinal ==
  /\ \A c \in Children : [](child[c].state = "exited" => <>SessionEnded(c))
  /\ [][NoRestart]_vars

\* C9 (amended): once the dev server or the watcher has exited with a
\* non-zero code or on a signal, the launcher eventually sends SIGTERM to the
\* other child (if it still runs) and exits; handling an exit with code 0
\* changes nothing (the launcher and the other child keep running), so a
\* launcher that still runs has handled only code-0 exits; and the launcher
\* never restarts a child.
C9_FailureExitFinal ==
  /\ \A c \in Children : [](child[c].state = "exited" /\ child[c].code # 0 => <>SessionEnded(c))
  /\ [](lpc = "running" =>
          \A c \in Children : child[c].state = "exited" /\ c \notin pending => child[c].code = 0)
  /\ [][/\ devServer_onExit /\ child["dev"].code = 0 => lpc' = "running" /\ child' = child
        /\ watch_onExit /\ child["watch"].code = 0 => lpc' = "running" /\ child' = child
        /\ NoRestart]_vars

\* C9 witness: the dev server exited with code 2, the launcher reported it,
\* sent SIGTERM to the still running watcher and exited with 2.
C9_Witness ==
  /\ lpc = "exited" /\ lexit = 2 /\ "dev" \in lerr
  /\ child["dev"].state = "exited" /\ child["dev"].code = 2 /\ child["dev"].spawns = 1
  /\ child["watch"].state = "running" /\ child["watch"].told

\* The dev server has not failed on its own: it still runs, or it exited with
\* code 0, or it ended on the SIGTERM it was sent.
DevServerStoppedCleanly ==
  child["dev"].code \in {-1, 0} /\ child["dev"].signal \in {"", "SIGTERM"}

\* C10 (as stated): when the dev server has been told to stop (and has not
\* failed with a code of its own) and the watcher then exits on SIGTERM, the
\* launcher prints no error message and exits with status 0, whichever
\* child's exit event it handles first.
C10_NoErrorOnWatcherSigterm ==
  stopScenario /\ DevServerStoppedCleanly /\ lpc = "exited" => lexit = 0 /\ lerr = {}
\* Every child has exited or has been sent SIGTERM.
AllToldOrGone == \A c \in Children : child[c].state = "exited" \/ child[c].told

\* C11 (as stated): once a child has exited with a non-zero code c while the
\* launcher runs, the launcher eventually has sent SIGTERM to the other child
\* and exited with status c; once the launcher has received SIGINT or SIGTERM,
\* it eventually has sent SIGTERM to both children and exited with status 0.
C11_MatchingStatus ==
  /\ \A c \in Children, k \in ExitCodes \ {0} :
       [](lpc = "running" /\ child[c].state = "exited" /\ child[c].code = k
            => <>(SessionEnded(c) /\ lexit = k))
  /\ [](lpc = "running" /\ pending \cap LauncherSignals # {}
            => <>(lpc = "exited" /\ AllToldOrGone /\ lexit = 0))

\* C11 (amended): the event the launcher handles first decides.  Handling the
\* exit of a child with a non-zero code c sends SIGTERM to the other child and
\* exits with status c; handling SIGINT or SIGTERM sends SIGTERM to both
\* children and exits with status 0; and once a child has exited with a
\* non-zero code or the launcher has received a signal, the launcher
\* eventually exits, with the status of one of the events that occurred and
\* every child gone or sent SIGTERM.
C11_FirstHandledDecides ==
  /\ [][/\ devServer_onExit /\ child["dev"].code > 0
             => lpc' = "exited" /\ lexit' = child["dev"].code /\ AllToldOrGone'
        /\ watch_onExit /\ child["watch"].code > 0
             => lpc' = "exited" /\ lexit' = child["watch"].code /\ AllToldOrGone'
        /\ process_onSignal => lpc' = "exited" /\ lexit' = 0 /\ AllToldOrGone']_vars
  /\ [](lpc = "running"
          /\ (pending \cap LauncherSignals # {}
                \/ \E c \in Children : child[c].state = "exited" /\ child[c].code > 0)
          => <>(lpc = "exited" /\ AllToldOrGone))
  /\ [](lpc = "exited" /\ lexit > 0 /\ lerr # {"missing"}
          => \E c \in Children :
               /\ child[c].state = "exited"
               /\ lexit = (IF child[c].code = -1 THEN 1 ELSE child[c].code))

\* C11 witness: the watcher exited with code 2; the launcher reported it, sent
\* SIGTERM to the running dev server and exited with 2.
C11_Witness ==
  /\ lpc = "exited" /\ lexit = 2 /\ lerr = {"watch"}
  /\ child["watch"].state = "exited" /\ child["watch"].code = 2
  /\ child["dev"].state = "running" /\ child["dev"].told
(***************************************************************************)
(* Claims about both variants of the driver                                *)
(***************************************************************************)
BadBuildJson == buildJson.kind \in {"absent", "malformed"}

BuildJsonWarnings == {"build.json not found", "build.json unreadable"}

\* add-sim with a sim name is past the reading of the common list and has
\* not failed since.
CommonListRead ==
  /\ argv.cmd = "add-sim" /\ argv.arg # ""
  /\ \/ pc \in {"step4", "step6", "step7", "step7push", "m_common", "m_libs"}
     \/ pc = "exited" /\ exitCode = 0

\* What C12 requires whatever the warning: the common list is empty, reading
\* it did not end the process, a completed add-sim has acquired the sim and
\* every name of its phetLibs, and add-sim fails only where an external
\* command failed (non-zero status, or an archive without a directory).
C12_DegradesToEmpty ==
  /\ (BadBuildJson /\ CommonListRead) =>
       /\ variant = "zip" => commonPhetLibs = <<>>
       /\ pc = "m_common" => libq = <<>>
       /\ AddSimDone => {argv.arg} \cup DepsOf(argv.arg) \subseteq dirs
  /\ (BadBuildJson /\ argv.cmd = "add-sim" /\ argv.arg # "" /\ pc = "exited" /\ exitCode # 0) =>
       /\ log # <<>>
       /\ log[Len(log)].status # 0 \/ log[Len(log)].cmd = "unzip"

C13_ResolveDefaults ==
  /\ [](argv.cmd = "add-sim" /\ argv.arg # "" =>
          LET sims == IF simsJson.kind = "ok" THEN simsJson.sims ELSE <<>>
              entries == {i \in 1..Len(sims) : sims[i].sim = argv.arg}
          IN IF entries = {}
             THEN /\ config = [sim |-> argv.arg, liveRepo |-> argv.arg, deps |-> <<>>]
                  /\ "not in sims.json" \in stdout
             ELSE /\ \E i \in entries :
                       /\ config.sim = argv.arg
                       /\ config.deps = sims[i].deps
                       /\ config.liveRepo =
                            (IF sims[i].liveRepo # "" THEN sims[i].liveRepo ELSE argv.arg)
                  /\ "not in sims.json" \notin stdout)
  /\ [][(~Running /\ argv'.cmd = "add-sim" /\ argv'.arg # "") => pc' = "npmChipper"]_vars

\* C13 witness: add-sim of "b" runs with a manifest that parses and has no
\* entry for "b": the default config, and the message logged.
C13_Witness ==
  /\ Running /\ argv.cmd = "add-sim" /\ argv.arg = "b"
  /\ simsJson.kind = "ok" /\ Len(simsJson.sims) = 1
  /\ config.liveRepo = "b" /\ config.deps = <<>>
  /\ "not in sims.json" \in stdout
\* C14 (as stated): in an add-sim process the package manager's install
\* command runs only in the two tooling repositories, never in the sim's
\* repository or in a library's.
C14_InstallOnlyInTooling ==
  argv.cmd = "add-sim" =>
    \A i \in 1..Len(log) :
      log[i].cmd \in {"npm", "npm install"} => log[i].where \in {CHIPPER, PERENNIAL_ALIAS}
\* The handled failures of a driver process that has ended: no or an unknown
\* sub-command, a missing sim argument, a clone, install, archive or
\* version-control command that exited non-zero (one failed download is not a
\* failure while candidates remain), an acquisition that did not return
\* (candidates exhausted, archive without a directory), start without a sim
\* or with a sim that has no directory.
HandledFailure ==
  \/ argv.cmd = ""
  \/ argv.cmd \in {"add-sim", "remove-sim"} /\ argv.arg = ""
  \/ \E i \in 1..Len(log) : log[i].status # 0 /\ log[i].cmd # "curl"
  \/ call.fn # "none"
  \/ /\ argv.cmd = "start"
     /\ LET chosen == chosenSim(argv.arg, before.installed) IN chosen = "" \/ chosen \notin dirs

\* C15 (as stated): a process that has ended has exit code 1 exactly when a
\* handled failure occurred, and then a message was written to standard
\* error; otherwise it has exit code 0.
C15_FailureExitsOneOnStderr ==
  pc = "exited" =>
    /\ exitCode = (IF HandledFailure THEN 1 ELSE 0)
    /\ exitCode = 1 => stderr

\* C15 (amended): as stated, except that for no or an unknown sub-command the
\* usage is printed on standard output and nothing on standard error.
C15_UsageOnStdout ==
  pc = "exited" =>
    /\ exitCode = (IF HandledFailure THEN 1 ELSE 0)
    /\ exitCode = 1 =>
         IF argv.cmd = "" THEN ~stderr /\ "usage" \in stdout ELSE stderr /\ "usage" \notin stdout

\* C15 witness: start of a sim that is not installed: install-all went
\* through, the sim has no directory, exit code 1 with a message on standard
\* error.
C15_Witness ==
  /\ pc = "exited" /\ exitCode = 1 /\ stderr
  /\ argv.cmd = "start" /\ argv.arg # ""
  /\ argv.arg \notin dirs
  /\ log # <<>> /\ \A i \in 1..Len(log) : log[i].status = 0
\* C16: in a pull or push process (pull, push, pull-all, push-all) a
\* version-control command that exited non-zero is the last command the
\* process ran, and the process has ended with a non-zero exit code: no
\* repository later in the enumeration is visited.
C16_PullPushAbort ==
  argv.cmd \in {"pull", "push", "pull-all", "push-all"} =>
    \A i \in 1..Len(log) :
      (log[i].cmd \in {"git pull", "git push"} /\ log[i].status # 0) =>
        /\ i = Len(log)
        /\ pc = "exited" /\ exitCode # 0
        /\ variant = "zip" => log[i].where \in todo
        /\ variant = "manage" => libq # <<>> /\ log[i].where = Head(libq)

\* C16 witness: pull-all pulled one repository, failed in the second, and
\* ended with exit code 1 leaving later repositories unvisited.
C16_Witness ==
  /\ argv.cmd = "pull-all" /\ pc = "exited" /\ exitCode = 1
  /\ Len(libq) >= 2
  /\ \E i \in 1..Len(log) : log[i].cmd = "git pull" /\ log[i].status = 0
  /\ log[Len(log)].cmd = "git pull" /\ log[Len(log)].status = 1
  /\ \A i \in 1..Len(log) : log[i].cmd = "git pull" => log[i].where # libq[2]
\* The sim a start process is about: its argument or, without one, the first
\* entry of the installed-set as the process found it ("" : none).
C17_Chosen ==
  IF argv.arg # "" THEN argv.arg
  ELSE IF before.installed # <<>> THEN Head(before.installed) ELSE ""

StartInvoked(sim) ==
  \E i \in 1..Len(log) : log[i].cmd = "npm start" /\ log[i].where = sim

NoStartInvoked == \A i \in 1..Len(log) : log[i].cmd # "npm start"

StartEnded == pc = "exited" /\ argv.cmd = "start"

\* C17 (as stated): a start process that has ended has failed with exit code
\* 1 without invoking the start command when there is no sim to choose or the
\* chosen sim has no directory; otherwise it has invoked the start command in
\* the chosen sim's directory.
C17_StartOrFail ==
  StartEnded =>
    IF C17_Chosen = "" \/ C17_Chosen \notin dirs
    THEN exitCode = 1 /\ NoStartInvoked
    ELSE StartInvoked(C17_Chosen)

\* C17 (amended): start first runs install-all for the tracked sims.  A start
\* process that has ended has failed with exit code 1 without invoking the
\* start command when there is no sim to choose, when a clone or install of
\* install-all failed, or when the chosen sim has no directory after
\* install-all (a tracked sim's directory is cloned by then); otherwise it has
\* invoked the start command once, as its last command, in the chosen sim's
\* directory, and its exit code is 0 exactly when that command exited with 0.
C17_StartAfterInstallAll ==
  StartEnded =>
    LET installFailed == \E i \in 1..Len(log) : log[i].cmd # "npm start" /\ log[i].status # 0 IN
    IF C17_Chosen = "" \/ installFailed \/ C17_Chosen \notin dirs
    THEN /\ exitCode = 1 /\ stderr /\ NoStartInvoked
         /\ C17_Chosen = "" => log = <<>>
         /\ (~installFailed /\ C17_Chosen \in Range(before.installed)) => C17_Chosen \in dirs
    ELSE /\ log[Len(log)] = [cmd |-> "npm start", where |-> C17_Chosen,
                             status |-> IF exitCode = 0 THEN 0 ELSE 1]
         /\ \A i \in 1..(Len(log) - 1) : log[i].cmd # "npm start"
         /\ exitCode \in {0, 1}

\* C17 witness: start without an argument, two sims installed: the start
\* command ran in the first one.
C17_Witness ==
  /\ StartEnded /\ exitCode = 0 /\ argv.arg = ""
  /\ Len(before.installed) = 2
  /\ log[Len(log)] = [cmd |-> "npm start", where |-> Head(before.installed), status |-> 0]
\* Ascending order of the sim keys: "a" < "a-lib" < "b" (a proper prefix
\* first, "-" before a letter).
Ascending(list) ==
  \A i, j \in 1..Len(list) :
    i < j => <<list[i], list[j]>> \in {<<"a", "a-lib">>, <<"a", "b">>, <<"a-lib", "b">>}

\* C18: in every state of every sequence of add-sim and remove-sim (and
\* list-sims) processes that starts without installed-sims.json, the file is
\* absent or a JSON array without duplicates in ascending order; and the
\* add-sim of a sim that is already installed leaves the file unchanged.
C18_DedupSorted ==
  /\ [](/\ installedFile.kind \in {"absent", "ok"}
        /\ NoDup(installedFile.list)
        /\ Ascending(installedFile.list))
  /\ [][(argv.cmd = "add-sim" /\ argv.arg \in Range(before.installed) /\ Running)
          => installedFile' = installedFile]_vars

\* C18 witness: "a" has been added after "b": the file lists a, then b.
C18_Witness ==
  /\ AddSimDone /\ argv.arg = "a"
  /\ before.installed = <<"b">>
  /\ installedFile.list = <<"a", "b">>
(***************************************************************************)
(* Claims about the acquirer's downloads                                   *)
(***************************************************************************)
Url(tmpl, repo, branch) == [tmpl |-> tmpl, owner |-> "phetsims", repo |-> repo, branch |-> branch]

\* The candidates C19 names, for the ensureZipRepo call in progress.
C19_Expected ==
  IF call.branch # ""
  THEN << Url("archive", call.repoName, call.branch), Url("zipball", call.repoName, call.branch) >>
  ELSE << Url("archive", call.repoName, "main"), Url("zipball", call.repoName, "main"),
          Url("archive", call.repoName, "master"), Url("zipball", call.repoName, "master") >>

\* C19: the URLs an ensureZipRepo call has tried are an initial part of its
\* candidate list (2 candidates with a branch hint, 4 without), so in order
\* and none twice; while it downloads, every attempt so far has failed, so
\* none follows a success; it gives up only with the list exhausted; and
\* unzip runs only right after a download that succeeded.
C19_CandidatesInOrder ==
  /\ []((call.fn = "zip" /\ call.phase \in {"curl", "unzip"}) =>
          /\ Len(C19_Expected) = (IF call.branch # "" THEN 2 ELSE 4)
          /\ Len(attempts) <= Len(C19_Expected)
          /\ attempts = SubSeq(C19_Expected, 1, Len(attempts))
          /\ Len(log) >= Len(attempts)
          /\ (call.phase = "curl" =>
                \A k \in 1..Len(attempts) :
                  log[Len(log) - Len(attempts) + k] =
                    [cmd |-> "curl", where |-> call.repoName, status |-> 1])
          /\ (call.phase = "curl" /\ pc = "exited") => attempts = C19_Expected
          /\ (call.phase = "unzip" /\ Running) =>
                /\ attempts # <<>>
                /\ log[Len(log)] = [cmd |-> "curl", where |-> call.repoName, status |-> 0])
  /\ [][(Len(log') = Len(log) + 1 /\ log'[Len(log')].cmd = "unzip") =>
          /\ call.fn = "zip" /\ call.phase = "unzip"
          /\ log[Len(log)] = [cmd |-> "curl", where |-> call.repoName, status |-> 0]]_vars

\* C19 witness: a call without a branch hint whose fourth download, of the
\* master zipball, succeeded: unzip is next.
C19_Witness ==
  /\ Running /\ call.fn = "zip" /\ call.branch = "" /\ call.phase = "unzip"
  /\ Len(attempts) = 4
  /\ attempts[4] = Url("zipball", call.repoName, "master")
(***************************************************************************)
(* Claims about what a failed add-sim leaves behind                        *)
(***************************************************************************)
\* C20: while an add-sim of manage.js runs, and after it has exited with 1
\* (no sim name, or a clone or install that exited non-zero), the installed
\* set read from installed-sims.json is the one the command started with;
\* the set changes during an add-sim only in the step that ends it with 0,
\* taken when nothing is left to acquire and every command it ran exited 0,
\* and after that step the sim is in the set.
C20_FailedAddLeavesInstalled ==
  /\ []((argv.cmd = "add-sim" /\ (Running \/ exitCode = 1)) =>
          readInstalled(installedFile) = before.installed)
  /\ []((argv.cmd = "add-sim" /\ pc = "exited" /\ exitCode = 0) =>
          /\ argv.arg \in Range(readInstalled(installedFile))
          /\ Range(before.installed) \subseteq Range(readInstalled(installedFile))
          /\ \A i \in 1..Len(log) : log[i].status = 0)
  /\ [][(argv'.cmd = "add-sim" /\ readInstalled(installedFile') # readInstalled(installedFile)) =>
          /\ argv = argv' /\ Running
          /\ simq = <<>> /\ libq = <<>>
          /\ argv.arg \in dirs
          /\ pc' = "exited" /\ exitCode' = 0
          /\ \A i \in 1..Len(log) : log[i].status = 0]_vars

\* C20 witness: with a sim already installed, an add-sim of another sim has
\* cloned at least one repository and then exited with 1 on a failing
\* command.
C20_Witness ==
  /\ argv.cmd = "add-sim" /\ argv.arg # "" /\ pc = "exited" /\ exitCode = 1
  /\ before.installed # <<>>
  /\ argv.arg \notin Range(before.installed)
  /\ Len(log) >= 2
  /\ log[1].status = 0
  /\ log[Len(log)].status # 0
(***************************************************************************)
(* Claims about the required repositories of the installed sims            *)
(***************************************************************************)
\* A process of manage.js has ended a run in which every process was an
\* add-sim or a remove-sim that exited with 0.
C21_AllSucceeded ==
  /\ pc = "exited" /\ exitCode = 0 /\ argv.cmd \in {"add-sim", "remove-sim"}
  /\ before.clean

\* The required set of the current installed-set: the two tooling
\* repositories, the common libs chipper/build.json lists, and each installed
\* sim with the libs its package.json lists.
C21_Required ==
  {CHIPPER, PERENNIAL_ALIAS}
    \cup (IF CHIPPER \in dirs THEN CommonDeps ELSE {})
    \cup UNION { {sim} \cup (IF sim \in dirs THEN DepsOf(sim) ELSE {}) :
                 sim \in Range(readInstalled(installedFile)) }

\* C21 as claimed: after any sequence of successful add-sim and remove-sim
\* commands every name of the required set is a directory under repos/.
C21_RequiredExist ==
  C21_AllSucceeded => C21_Required \subseteq dirs

\* C21: after any sequence of successful add-sim and remove-sim commands
\* every installed sim and each of its libs is a directory under repos/, and
\* once an add-sim is among them the whole required set is, tooling and
\* common libs included; a sequence of remove-sim commands alone creates
\* nothing, so it ends with no sim installed and no directory.
C21_RequiredExistOnceAdded ==
  C21_AllSucceeded =>
    /\ \A sim \in Range(readInstalled(installedFile)) : {sim} \cup DepsOf(sim) \subseteq dirs
    /\ (argv.cmd = "add-sim" \/ before.adds) => C21_Required \subseteq dirs
    /\ (argv.cmd = "remove-sim" /\ ~before.adds) =>
          /\ readInstalled(installedFile) = <<>>
          /\ dirs = {}

\* C21 witness: after successful add-sims only, a successful remove-sim has
\* pruned a directory while another sim stays installed.
C21_Witness ==
  /\ C21_AllSucceeded /\ argv.cmd = "remove-sim" /\ before.adds
  /\ readInstalled(installedFile) # <<>>
  /\ dirs # before.dirs

====
